---- MODULE Spec2Model ----
(***************************************************************************)
(* A model of the privacy-sdg-toolbox core:                                *)
(*   - prive/attacks/groundhog.py : the Groundhog attack protocol          *)
(*   - prive/datasets/dataset.py  : TabularDataset / TabularRecord         *)
(* SpecAttack is the attack protocol, SpecData the dataset container,      *)
(* SpecRecord the record identity model.                                   *)
(***************************************************************************)
EXTENDS Integers, Sequences, FiniteSets, TLC

\* trained, call: the Groundhog instance's flag and its last call;
\* succeeded: history, whether some train call has returned normally;
\* heap, data, description, id: the DataFrames and the objects holding them;
\* last: the last dataset operation
VARIABLES trained, call, succeeded, heap, data, description, id, last

attackVars == <<trained, call, succeeded>>
dataVars == <<heap, data, description, id, last>>
vars == <<trained, call, succeeded, heap, data, description, id, last>>

(***************************************************************************)
(* Bounds of the model                                                     *)
(***************************************************************************)
\* longest list of datasets / labels handed to train, attack, attack_score,
\* and largest num_samples handed to train
MaxList == 2
\* classifier scores are the fractions k / ScoreScale, k in 0..ScoreScale
ScoreScale == 4

(***************************************************************************)
(* Python values                                                           *)
(***************************************************************************)
\* an optional argument: None, or Some(v)
None == [some |-> FALSE, v |-> <<>>]
Some(x) == [some |-> TRUE, v |-> x]

SeqsUpTo(S, n) == UNION {[1..k -> S] : k \in 0..n}

\* the datasets handed to the attack, by name
DatasetIds == {"d1", "d2"}
DatasetLists == SeqsUpTo(DatasetIds, MaxList)
LabelLists == SeqsUpTo({0, 1}, MaxList)
Scores == 0..ScoreScale

(***************************************************************************)
(* Groundhog (src/prive/attacks/groundhog.py)                              *)
(***************************************************************************)
\* the attributes Groundhog.__init__ sets on the instance
InstanceAttrs == {"classifier", "data_description", "trained", "__name__"}

HasAttr(name) == name \in InstanceAttrs

\* the record of one call on the Groundhog instance: what it was given, which
\* collaborator calls it made, and how it ended
NoCall ==
  [op |-> "init", outcome |-> "ok", result |-> <<>>,
   threat_model |-> FALSE, num_samples |-> 0,
   datasets |-> None, labels |-> None,
   genCalls |-> 0, genArg |-> 0, genRet |-> None, genLabels |-> None,
   fitCalls |-> 0, fitDatasets |-> None, fitLabels |-> None,
   predictCalls |-> 0, probaCalls |-> 0, scores |-> <<>>]

\* the rounding, were it a truncation (astype(int) with no np.round)
NpRoundFloor(k) == k \div ScoreScale

\* np.round(x, 0) on the score k / ScoreScale: nearest integer, ties to even
NpRound(k) ==
  LET q == k \div ScoreScale
      r == k % ScoreScale
  IN  IF 2 * r < ScoreScale THEN q
      ELSE IF 2 * r > ScoreScale THEN q + 1
      ELSE IF q % 2 = 0 THEN q ELSE q + 1

\* the guard, were the assert missing
TrainedGuardMissing == TRUE

\* the guard `assert self.trained` of attack and attack_score
TrainedGuard == trained

\* Groundhog.__init__
InitAttack ==
  /\ trained = FALSE
  /\ call = NoCall
  /\ succeeded = FALSE

\* the threat model's generate_training_samples(num_samples)
GeneratedDatasets(num_samples) == [1..num_samples -> DatasetIds]
GeneratedLabels(num_samples) == [1..num_samples -> {0, 1}]

\* the classifier's predict: one score in [0, 1] per dataset
PredictOutputs(datasets) == [1..Len(datasets) -> Scores]

\* the classifier's predict_proba: one pair summing to 1 per feature vector
ProbaOutputs(synT) ==
  [1..Len(synT) -> {<<ScoreScale - p, p>> : p \in Scores}]

\* the fit step, were the flag assigned from the outcome of fit
FitResets(base, ds, ls) ==
  \E fitOk \in BOOLEAN :
    /\ call' = [base EXCEPT !.fitCalls = 1, !.fitDatasets = Some(ds),
                            !.fitLabels = Some(ls),
                            !.outcome = IF fitOk THEN "ok" ELSE "FitError"]
    /\ trained' = fitOk
    /\ succeeded' = (succeeded \/ fitOk)

\* lines 100-102 of train: classifier.fit(ds, ls), which returns or raises,
\* then self.trained = True
FitAndMark(base, ds, ls) ==
  \E fitOk \in BOOLEAN :
    /\ call' = [base EXCEPT !.fitCalls = 1, !.fitDatasets = Some(ds),
                            !.fitLabels = Some(ls),
                            !.outcome = IF fitOk THEN "ok" ELSE "FitError"]
    /\ trained' = IF fitOk THEN TRUE ELSE trained
    /\ succeeded' = (succeeded \/ fitOk)

\* the condition, were it `and`
NeedsGenerationAnd(synthetic_datasets, labels) ==
  ~synthetic_datasets.some /\ ~labels.some

\* the condition of train under which the threat model is asked for samples
NeedsGeneration(synthetic_datasets, labels) ==
  ~synthetic_datasets.some \/ ~labels.some

\* Groundhog.train(threat_model, num_samples, synthetic_datasets, labels);
\* threat_model is TRUE for a threat model, FALSE for None
Train(threat_model, num_samples, synthetic_datasets, labels) ==
  LET base == [NoCall EXCEPT !.op = "train", !.threat_model = threat_model,
                             !.num_samples = num_samples,
                             !.datasets = synthetic_datasets, !.labels = labels]
      gen == [base EXCEPT !.genCalls = 1, !.genArg = num_samples]
  IN  IF NeedsGeneration(synthetic_datasets, labels)
      THEN IF ~threat_model
           THEN \* None.generate_training_samples
                /\ call' = [base EXCEPT !.outcome = "AttributeError"]
                /\ UNCHANGED <<trained, succeeded>>
           ELSE \/ \* generate_training_samples raises
                   /\ call' = [gen EXCEPT !.outcome = "GenError"]
                   /\ UNCHANGED <<trained, succeeded>>
                \/ \E gds \in GeneratedDatasets(num_samples),
                      gls \in GeneratedLabels(num_samples) :
                     FitAndMark([gen EXCEPT !.genRet = Some(gds),
                                            !.genLabels = Some(gls)], gds, gls)
      ELSE FitAndMark(base, synthetic_datasets.v, labels.v)

\* Groundhog.attack(datasets)
Attack(datasets) ==
  LET base == [NoCall EXCEPT !.op = "attack", !.datasets = Some(datasets)]
  IN  /\ UNCHANGED <<trained, succeeded>>
      /\ IF ~TrainedGuard
         THEN call' = [base EXCEPT !.outcome = "AssertionError"]
         ELSE \/ \* classifier.predict raises
                 call' = [base EXCEPT !.predictCalls = 1, !.outcome = "PredictError"]
              \/ \E scores \in PredictOutputs(datasets) :
                   call' = [base EXCEPT !.predictCalls = 1, !.scores = scores,
                              !.result = [i \in 1..Len(scores) |-> NpRound(scores[i])]]

\* Groundhog.attack_score(synT, secret); predict_proba returns pairs
\* <<mass of class 0, mass of class 1>> in units of 1 / ScoreScale
AttackScore(synT, secret) ==
  LET base == [NoCall EXCEPT !.op = "attack_score", !.datasets = Some(synT),
                             !.labels = Some(secret)]
  IN  /\ UNCHANGED <<trained, succeeded>>
      /\ IF ~TrainedGuard
         THEN call' = [base EXCEPT !.outcome = "AssertionError"]
         ELSE IF ~HasAttr("FeatureSet")
         THEN \* line 155 reads self.FeatureSet, which nothing has set
              call' = [base EXCEPT !.outcome = "AttributeError"]
         ELSE IF ~HasAttr("Classifier")
         THEN \* line 163 reads self.Classifier, which nothing has set
              call' = [base EXCEPT !.outcome = "AttributeError"]
         ELSE \E probs \in ProbaOutputs(synT) :
                call' = [base EXCEPT !.probaCalls = 1, !.scores = probs,
                           !.result = [i \in 1..Len(secret) |-> probs[i][secret[i] + 1]]]

OptDatasetLists == {None} \cup {Some(l) : l \in DatasetLists}
OptLabelLists == {None} \cup {Some(l) : l \in LabelLists}

TrainStep ==
  /\ \E threat_model \in BOOLEAN, num_samples \in 1..MaxList,
        synthetic_datasets \in OptDatasetLists, labels \in OptLabelLists :
       Train(threat_model, num_samples, synthetic_datasets, labels)
  /\ UNCHANGED dataVars

AttackStep ==
  /\ \E datasets \in DatasetLists : Attack(datasets)
  /\ UNCHANGED dataVars

AttackScoreStep ==
  /\ \E synT \in DatasetLists :
       \E secret \in [1..Len(synT) -> {0, 1}] : AttackScore(synT, secret)
  /\ UNCHANGED dataVars

NextAttack == TrainStep \/ AttackStep \/ AttackScoreStep

(***************************************************************************)
(* TabularDataset / TabularRecord (src/prive/datasets/dataset.py)          *)
(*                                                                         *)
(* A DataFrame is a sequence of rows; a row has an index label (idx) and   *)
(* its values (val, one number standing for the tuple of column values,    *)
(* ordered as the tuples are).  DataFrames live in a heap: an object's     *)
(* `data` attribute holds a reference, so that two objects may hold the    *)
(* same DataFrame.                                                         *)
(***************************************************************************)
\* most rows a DataFrame of the model holds
MaxRows == 3
\* row values are 1..NumVals
NumVals == 2
\* index labels handed to drop_records / set_id are 0..MaxLabel
MaxLabel == 2
\* rows of the second dataset E read from storage
OtherRows == 1
\* largest number n of subsets asked of create_subsets
MaxSubsets == 2

Vals == 1..NumVals
LabelRange == 0..MaxLabel
Schemas == {"A", "B"}
Rows == [idx : Nat, val : Vals]

\* the program's objects: datasets D, T, E and the record R
Objs == {"D", "T", "E", "R"}
ObjOrder == <<"D", "T", "E", "R">>
Datasets == {"D", "T", "E"}
Null == 0
FrameIds == 1..Len(ObjOrder)
Fresh == Len(ObjOrder) + 1

\* self.data of an existing object
F(o) == heap[data[o]]
Exists(o) == data[o] # Null

\* a DataFrame as read from storage: a RangeIndex 0..n-1
FreshFrame(vs) == [k \in 1..Len(vs) |-> [idx |-> k - 1, val |-> vs[k]]]

\* ---- pandas / numpy ----
Labels(f) == {f[k].idx : k \in 1..Len(f)}
ValuesOf(f) == [k \in 1..Len(f) |-> f[k].val]

\* DataFrame.iloc[ids] with a list: positional, negative positions count from
\* the end, a position out of bounds is an IndexError
IlocOk(f, ids) == \A k \in 1..Len(ids) : -Len(f) <= ids[k] /\ ids[k] < Len(f)
IlocPos(f, i) == IF i >= 0 THEN i + 1 ELSE Len(f) + i + 1
Iloc(f, ids) == [k \in 1..Len(ids) |-> f[IlocPos(f, ids[k])]]

\* DataFrame.drop(labels): by index label, every row carrying a listed label
\* goes, a label that no row carries is a KeyError
DropOk(f, labels) == \A k \in 1..Len(labels) : labels[k] \in Labels(f)
Drop(f, labels) ==
  LET gone == {labels[k] : k \in 1..Len(labels)}
      RECURSIVE take(_)
      take(k) == IF k > Len(f) THEN <<>>
                 ELSE (IF f[k].idx \in gone THEN <<>> ELSE <<f[k]>>) \o take(k + 1)
  IN  take(1)

\* the concatenation, were the rows of g already in f left out
ConcatDropDuplicates(f, g) ==
  LET RECURSIVE keep(_)
      keep(k) == IF k > Len(g) THEN <<>>
                 ELSE (IF \E m \in 1..Len(f) : f[m].val = g[k].val
                       THEN <<>> ELSE <<g[k]>>) \o keep(k + 1)
  IN  f \o keep(1)

\* pd.concat([f, g]): the rows of f, then the rows of g, labels kept
Concat(f, g) == f \o g

\* DataFrame.sample(n): n rows without replacement, in any order
SampleOutputs(f, n) ==
  {[k \in 1..n |-> f[p[k]]] :
     p \in {q \in [1..n -> 1..Len(f)] :
              \A a, b \in 1..n : a # b => q[a] # q[b]}}

\* np.random.choice(index, size=n): n labels drawn WITH replacement; it is
\* called only when the caller gave no record_ids
ChoiceOutputs(f, record_ids, n) ==
  IF Len(record_ids) # 0 \/ Labels(f) = {} THEN {<<>>} ELSE [1..n -> Labels(f)]

\* the distinct elements of a sequence, in the order of first appearance
RECURSIVE Distinct(_)
Distinct(s) ==
  IF s = <<>> THEN <<>>
  ELSE <<Head(s)>> \o Distinct(SelectSeq(Tail(s), LAMBDA x : x # Head(s)))

\* the elements of a set of numbers, ascending
RECURSIVE Ascending(_)
Ascending(S) ==
  IF S = {} THEN <<>>
  ELSE LET m == CHOOSE x \in S : \A y \in S : x <= y
       IN  <<m>> \o Ascending(S \ {m})

Count(s, v) == Cardinality({k \in 1..Len(s) : s[k] = v})
Repeat(x, n) == [k \in 1..n |-> x]

\* pd.merge(left, right, how='outer', indicator=True) on all columns: one
\* group of rows per key, with a new RangeIndex.  The keys come sorted
\* (sorts) or in the order of first appearance, left frame first.
MergeOuter(left, right, sorts) ==
  LET lv == ValuesOf(left)
      rv == ValuesOf(right)
      keys == IF sorts THEN Ascending({(lv \o rv)[k] : k \in 1..(Len(lv) + Len(rv))})
              ELSE Distinct(lv \o rv)
      group(v) ==
        LET cl == Count(lv, v)
            cr == Count(rv, v)
        IN  IF cl > 0 /\ cr > 0 THEN Repeat([val |-> v, merge |-> "both"], cl * cr)
            ELSE IF cl > 0 THEN Repeat([val |-> v, merge |-> "left_only"], cl)
            ELSE Repeat([val |-> v, merge |-> "right_only"], cr)
      RECURSIVE cat(_)
      cat(k) == IF k > Len(keys) THEN <<>> ELSE group(keys[k]) \o cat(k + 1)
  IN  cat(1)

\* ---- the record of the last dataset operation ----
NoOp ==
  [op |-> "init", outcome |-> "ok", self |-> "D", other |-> "D",
   record_ids |-> <<>>, n |-> 0, in_place |-> FALSE, value |-> -1,
   sample_size |-> 0, subsets |-> <<>>]

\* ---- the heap ----
\* object ids are not observable: after every step the DataFrames are
\* renumbered by the first object (in ObjOrder) that holds them
FirstHolder(nd, o) ==
  CHOOSE k \in 1..Len(ObjOrder) :
    /\ nd[ObjOrder[k]] = nd[o]
    /\ \A j \in 1..(k - 1) : nd[ObjOrder[j]] # nd[o]
CanonData(nd) == [o \in Objs |-> IF nd[o] = Null THEN Null ELSE FirstHolder(nd, o)]
CanonHeap(nd, nh) ==
  [k \in FrameIds |->
     IF nd[ObjOrder[k]] # Null /\ FirstHolder(nd, ObjOrder[k]) = k
     THEN nh[nd[ObjOrder[k]]] ELSE <<>>]

WithNew(frame) == [k \in 1..Fresh |-> IF k = Fresh THEN frame ELSE heap[k]]

Commit(nd, nh, ndesc, nid, nlast) ==
  /\ data' = CanonData(nd)
  /\ heap' = CanonHeap(nd, nh)
  /\ description' = ndesc
  /\ id' = nid
  /\ last' = nlast
  /\ UNCHANGED attackVars

\* the call raises and leaves every object as it was
Raise(nlast) == Commit(data, WithNew(<<>>), description, id, nlast)

\* TabularDataset(frame, desc) bound to the program variable target
NewDataset(target, frame, desc, nlast) ==
  Commit([data EXCEPT ![target] = Fresh], WithNew(frame),
         [description EXCEPT ![target] = desc], id, nlast)

\* self.data = frame
Rebind(self, frame, nlast) ==
  Commit([data EXCEPT ![self] = Fresh], WithNew(frame), description, id, nlast)


\* ---- TabularDataset ----
\* __len__
DsLen(o) == Len(F(o))

\* sample(n_samples): a new dataset over DataFrame.sample's rows
Sample(self, target, n_samples) ==
  LET op == [NoOp EXCEPT !.op = "sample", !.self = self, !.n = n_samples]
  IN  IF n_samples > DsLen(self)
      THEN Raise([op EXCEPT !.outcome = "ValueError"])
      ELSE \E out \in SampleOutputs(F(self), n_samples) :
             NewDataset(target, out, description[self], op)

\* get_records(record_ids): a new dataset over self.data.iloc[record_ids]
GetRecords(self, target, record_ids) ==
  LET op == [NoOp EXCEPT !.op = "get_records", !.self = self,
                         !.record_ids = record_ids]
  IN  IF ~IlocOk(F(self), record_ids)
      THEN Raise([op EXCEPT !.outcome = "IndexError"])
      ELSE NewDataset(target, Iloc(F(self), record_ids), description[self], op)

\* empty(): get_records([])
Empty(self, target) ==
  NewDataset(target, Iloc(F(self), <<>>), description[self],
             [NoOp EXCEPT !.op = "empty", !.self = self])

\* the first lines of drop_records on the DataFrame f: the labels to drop
\* (the caller's, or n drawn at random when the caller gave none) and
\* new_data; choice is what np.random.choice returns
DropOutcome(f, record_ids, n, choice) ==
  IF Len(record_ids) = 0 /\ n > 0 /\ Len(f) = 0 THEN "ValueError"
  ELSE IF ~DropOk(f, IF Len(record_ids) = 0 THEN choice ELSE record_ids)
  THEN "KeyError"
  ELSE "ok"
DropResult(f, record_ids, n, choice) ==
  Drop(f, IF Len(record_ids) = 0 THEN choice ELSE record_ids)

\* drop_records(record_ids, n, in_place)
DropRecords(self, target, record_ids, n, in_place) ==
  LET op == [NoOp EXCEPT !.op = "drop_records", !.self = self,
                         !.record_ids = record_ids, !.n = n,
                         !.in_place = in_place]
  IN  \E choice \in ChoiceOutputs(F(self), record_ids, n) :
        LET res == DropOutcome(F(self), record_ids, n, choice)
            new_data == DropResult(F(self), record_ids, n, choice)
        IN  IF res # "ok" THEN Raise([op EXCEPT !.outcome = res])
            ELSE IF in_place THEN Rebind(self, new_data, op)
            ELSE NewDataset(target, new_data, description[self], op)

\* __add__(other)
Add(self, target, other) ==
  LET op == [NoOp EXCEPT !.op = "add", !.self = self, !.other = other]
  IN  IF description[self] # description[other]
      THEN Raise([op EXCEPT !.outcome = "AssertionError"])
      ELSE NewDataset(target, Concat(F(self), F(other)), description[self], op)

\* add_records(records, in_place)
AddRecords(self, target, records, in_place) ==
  LET op == [NoOp EXCEPT !.op = "add_records", !.self = self, !.other = records,
                         !.in_place = in_place]
  IN  IF description[self] # description[records]
      THEN Raise([op EXCEPT !.outcome = "AssertionError"])
      ELSE IF in_place THEN Rebind(self, Concat(F(self), F(records)), op)
      ELSE NewDataset(target, Concat(F(self), F(records)), description[self], op)

\* replace(records_in, records_out, in_place)
Replace(self, target, records_in, records_out, in_place, choice) ==
  LET n == DsLen(records_in)
      op == [NoOp EXCEPT !.op = "replace", !.self = self, !.other = records_in,
                         !.record_ids = records_out, !.in_place = in_place]
      res == DropOutcome(F(self), records_out, n, choice)
      reduced == DropResult(F(self), records_out, n, choice)
  IN  IF Len(records_out) > 0 /\ Len(records_out) # n
      THEN Raise([op EXCEPT !.outcome = "AssertionError"])
      ELSE IF res # "ok" THEN Raise([op EXCEPT !.outcome = res])
      ELSE IF in_place
      THEN \* self.drop_records(..., in_place=True) has rebound self.data
           \* when self.add_records(..., in_place=True) asserts the Schema
           IF description[self] # description[records_in]
           THEN Rebind(self, reduced, [op EXCEPT !.outcome = "AssertionError"])
           ELSE Rebind(self, Concat(reduced, F(records_in)), op)
      ELSE IF description[self] # description[records_in]
      THEN Raise([op EXCEPT !.outcome = "AssertionError"])
      ELSE NewDataset(target, Concat(reduced, F(records_in)), description[self], op)

\* index_split(N, sample_size, n): n lists of sample_size positions out of
\* 0..N-1, each list drawn without replacement, the lists independent
IndexSplit(N, sample_size, n) ==
  [1..n -> {q \in [1..sample_size -> 0..(N - 1)] :
              \A a, b \in 1..sample_size : a # b => q[a] # q[b]}]

\* the size check, were it strict
SubsetSizeOkStrict(self, sample_size) == sample_size < DsLen(self)

\* assert sample_size <= len(self)
SubsetSizeOk(self, sample_size) == sample_size <= DsLen(self)

\* create_subsets(n, sample_size): the list of get_records(train_index), one
\* new dataset for each list of positions that index_split returns
CreateSubsets(self, n, sample_size) ==
  LET op == [NoOp EXCEPT !.op = "create_subsets", !.self = self, !.other = self,
                         !.n = n, !.sample_size = sample_size]
  IN  IF ~SubsetSizeOk(self, sample_size)
      THEN Raise([op EXCEPT !.outcome = "AssertionError"])
      ELSE \E splits \in IndexSplit(DsLen(self), sample_size, n) :
             Commit(data, WithNew(<<>>), description, id,
                    [op EXCEPT !.subsets =
                       [k \in 1..n |->
                          [rows |-> Iloc(F(self), splits[k]),
                           description |-> description[self]]]])

\* ---- TabularRecord ----
\* from_dataset(tabular_row): the record is built over tabular_row.data itself
FromDataset(tabular_row) ==
  LET op == [NoOp EXCEPT !.op = "from_dataset", !.self = tabular_row]
  IN  IF DsLen(tabular_row) # 1
      THEN Raise([op EXCEPT !.outcome = "AssertionError"])
      ELSE Commit([data EXCEPT !["R"] = data[tabular_row]], WithNew(<<>>),
                  [description EXCEPT !["R"] = description[tabular_row]],
                  F(tabular_row)[1].idx, op)

\* one item of __iter__: row k as a record over a DataFrame of its own
Iter(self, k) ==
  Commit([data EXCEPT !["R"] = Fresh], WithNew(<<F(self)[k]>>),
         [description EXCEPT !["R"] = description[self]],
         F(self)[k].idx,
         [NoOp EXCEPT !.op = "iter", !.self = self, !.n = k])

\* what get_id(tabular_dataset) computes on the record's DataFrame rec
GetIdBoth(merged) == {k \in 1..Len(merged) : merged[k].merge = "both"}
GetIdOutcome(ds, rec, sorts) ==
  IF Cardinality(GetIdBoth(MergeOuter(ds, rec, sorts))) # 1
  THEN "AssertionError" ELSE "ok"
GetIdValue(ds, rec, sorts) ==
  LET both == GetIdBoth(MergeOuter(ds, rec, sorts))
  IN  IF Cardinality(both) # 1 THEN -1 ELSE (CHOOSE k \in both : TRUE) - 1

\* get_id(tabular_dataset); sorts: whether the installed pandas sorts the keys
\* of an outer merge (as documented, and as it does from 2.2 on) or keeps them
\* in the order of appearance (as it did before)
GetId(tabular_dataset, sorts) ==
  LET op == [NoOp EXCEPT !.op = "get_id", !.self = "R", !.other = tabular_dataset]
      res == GetIdOutcome(F(tabular_dataset), F("R"), sorts)
  IN  Raise([op EXCEPT !.outcome = res,
                       !.value = GetIdValue(F(tabular_dataset), F("R"), sorts)])

\* set_id(identifier): the id attribute, then the DataFrame's index, in place
SetId(identifier) ==
  LET op == [NoOp EXCEPT !.op = "set_id", !.self = "R", !.n = identifier]
  IN  IF DsLen("R") # 1
      THEN Commit(data, WithNew(<<>>), description, identifier,
                  [op EXCEPT !.outcome = "ValueError"])
      ELSE Commit(data,
                  [WithNew(<<>>) EXCEPT ![data["R"]] =
                     <<[idx |-> identifier, val |-> F("R")[1].val]>>],
                  description, identifier, op)

\* TabularRecord.from_dataset(D.get_records([i])).get_id(D): the one-row
\* dataset is a temporary that only the record R holds afterwards
RoundTrip(self, i, sorts) ==
  LET op == [NoOp EXCEPT !.op = "round_trip", !.self = self, !.other = self,
                         !.record_ids = <<i>>]
      row == Iloc(F(self), <<i>>)
  IN  IF ~IlocOk(F(self), <<i>>)
      THEN Raise([op EXCEPT !.outcome = "IndexError"])
      ELSE Commit([data EXCEPT !["R"] = Fresh], WithNew(row),
                  [description EXCEPT !["R"] = description[self]],
                  row[1].idx,
                  [op EXCEPT !.outcome = GetIdOutcome(F(self), row, sorts),
                             !.value = GetIdValue(F(self), row, sorts)])

\* ---- the program ----
\* datasets that operations are called on, and the datasets handed to them
\* D and E are the datasets read from storage, T the dataset the program derives:
\* every operation that returns a dataset binds it to T, and the in-place
\* operations are called on T
Selves == {"D", "T"}
Mutables == {"T"}
Operands == {"T", "E"}
\* the lists of distinct indices handed to get_records, drop_records, replace
IdLists ==
  {<<>>} \cup {<<i>> : i \in LabelRange}
         \cup {<<x[1], x[2]>> : x \in {y \in LabelRange \X LabelRange : y[1] < y[2]}}

InitData ==
  /\ \E vs \in UNION {[1..k -> Vals] : k \in 2..MaxRows}, schema \in Schemas :
       /\ heap = [k \in FrameIds |->
                    IF k = 1 THEN FreshFrame(vs)
                    ELSE IF k = 3 THEN FreshFrame([j \in 1..OtherRows |-> 1])
                    ELSE <<>>]
       /\ description = [o \in Objs |->
                           IF o = "D" THEN "A"
                           ELSE IF o = "E" THEN schema ELSE "none"]
  /\ data = [o \in Objs |-> IF o = "D" THEN 1 ELSE IF o = "E" THEN 3 ELSE Null]
  /\ id = -1
  /\ last = NoOp

SampleStep ==
  \E self \in Selves, n \in 1..(MaxRows - 1) :
    Exists(self) /\ Sample(self, "T", n)

GetRecordsStep ==
  \E self \in Selves, ids \in IdLists :
    Exists(self) /\ GetRecords(self, "T", ids)

EmptyStep ==
  \E self \in Selves : Exists(self) /\ Empty(self, "T")

DropRecordsStep ==
  \E self \in Selves, ids \in IdLists, n \in 1..2, in_place \in BOOLEAN :
    /\ Exists(self)
    /\ in_place => self \in Mutables
    /\ Len(ids) # 0 => n = 1
    /\ DropRecords(self, "T", ids, n, in_place)

AddStep ==
  \E self \in Selves, other \in Operands :
    /\ Exists(self) /\ Exists(other)
    /\ DsLen(self) + DsLen(other) <= MaxRows
    /\ Add(self, "T", other)

AddRecordsStep ==
  \E self \in Selves, other \in Operands, in_place \in BOOLEAN :
    /\ Exists(self) /\ Exists(other)
    /\ in_place => self \in Mutables
    /\ DsLen(self) + DsLen(other) <= MaxRows
    /\ AddRecords(self, "T", other, in_place)

ReplaceStep ==
  \E self \in Selves, other \in Operands, ids \in IdLists, in_place \in BOOLEAN :
    /\ Exists(self) /\ Exists(other)
    /\ in_place => self \in Mutables
    /\ \E choice \in ChoiceOutputs(F(self), ids, DsLen(other)) :
         /\ Len(DropResult(F(self), ids, DsLen(other), choice)) + DsLen(other) <= MaxRows
         /\ Replace(self, "T", other, ids, in_place, choice)

CreateSubsetsStep ==
  \E self \in Selves, n \in 0..MaxSubsets, sample_size \in 0..(MaxRows + 1) :
    Exists(self) /\ CreateSubsets(self, n, sample_size)

FromDatasetStep ==
  \E self \in Selves : Exists(self) /\ FromDataset(self)

IterStep ==
  \E self \in Selves :
    /\ Exists(self)
    /\ \E k \in 1..DsLen(self) : Iter(self, k)

GetIdStep ==
  \E ds \in Selves, sorts \in BOOLEAN :
    Exists(ds) /\ Exists("R") /\ GetId(ds, sorts)

SetIdStep ==
  \E identifier \in LabelRange : Exists("R") /\ SetId(identifier)

RoundTripStep ==
  \E self \in Selves, i \in 0..(MaxRows - 1), sorts \in BOOLEAN :
    Exists(self) /\ RoundTrip(self, i, sorts)

\* the operations of TabularDataset
NextData ==
  \/ SampleStep \/ GetRecordsStep \/ EmptyStep \/ DropRecordsStep
  \/ AddStep \/ AddRecordsStep \/ ReplaceStep

\* the operations of TabularRecord, on the rows that get_records and
\* drop_records hand it
NextRecord ==
  \/ GetRecordsStep \/ DropRecordsStep
  \/ FromDatasetStep \/ IterStep \/ GetIdStep \/ SetIdStep \/ RoundTripStep

\* create_subsets, on the datasets read from storage and on the ones that
\* sample, drop_records and + derive from them
NextSubsets ==
  \/ SampleStep \/ DropRecordsStep \/ AddStep \/ CreateSubsetsStep

\* ---- specifications ----
\* The two components share no state, so each is checked with the other at
\* rest in one fixed state.
IdleData ==
  /\ heap = [k \in FrameIds |->
               IF k = 1 THEN FreshFrame(<<1, 2>>)
               ELSE IF k = 3 THEN FreshFrame(<<1>>) ELSE <<>>]
  /\ description = [o \in Objs |-> IF o \in {"D", "E"} THEN "A" ELSE "none"]
  /\ data = [o \in Objs |-> IF o = "D" THEN 1 ELSE IF o = "E" THEN 3 ELSE Null]
  /\ id = -1
  /\ last = NoOp

\* the attack protocol, the datasets left alone
InitAttackSpec == InitAttack /\ IdleData
SpecAttack == InitAttackSpec /\ [][NextAttack]_vars

\* the dataset container, the attack left alone
Init == InitAttack /\ InitData
SpecData == Init /\ [][NextData]_vars

\* the record identity model, the attack left alone
SpecRecord == Init /\ [][NextRecord]_vars

\* the subset generation on the datasets derived from one stored pair, the
\* attack left alone
SpecSubsets == InitAttackSpec /\ [][NextSubsets]_vars

Next == NextAttack \/ NextData \/ NextRecord \/ NextSubsets
Spec == Init /\ [][Next]_vars


(***************************************************************************)
(* Properties of the attack protocol (SpecAttack)                          *)
(***************************************************************************)
Abs(x) == IF x < 0 THEN -x ELSE x

\* C1: on an instance on which no train call has returned normally, every
\* attack and attack_score call fails with the assertion, returns nothing
\* and does not reach the classifier's predict / predict_proba.
C1_UntrainedFails ==
  (~succeeded /\ call.op \in {"attack", "attack_score"}) =>
    /\ call.outcome = "AssertionError"
    /\ call.result = <<>>
    /\ call.predictCalls = 0
    /\ call.probaCalls = 0

\* attack_score was refused on an instance whose training has not succeeded
C1_Witness ==
  /\ ~succeeded
  /\ call.op = "attack_score"
  /\ call.outcome = "AssertionError"
  /\ Len(call.datasets.v) > 0

\* C2: once a train has succeeded, attack is not refused, and when it returns
\* it returns one guess per dataset, the i-th an integer nearest to the i-th
\* predict score (|guess - score| <= 1/2), each guess 0 or 1.
C2_AttackGuesses ==
  (succeeded /\ call.op = "attack") =>
    /\ call.outcome # "AssertionError"
    /\ call.predictCalls = 1
    /\ call.outcome = "ok" =>
         /\ Len(call.result) = Len(call.datasets.v)
         /\ Len(call.scores) = Len(call.datasets.v)
         /\ \A i \in 1..Len(call.result) :
              /\ 2 * Abs(ScoreScale * call.result[i] - call.scores[i]) <= ScoreScale
              /\ call.result[i] \in {0, 1}

\* attack returned two different guesses for two datasets
C2_Witness ==
  /\ succeeded
  /\ call.op = "attack"
  /\ call.outcome = "ok"
  /\ Len(call.result) = 2
  /\ call.result[1] = 0
  /\ call.result[2] = 1
  /\ 0 < call.scores[1]
  /\ call.scores[2] < ScoreScale

\* C3: once a train has succeeded, attack_score on lists of equal length
\* returns probabilities[i][secret[i]] for every i, each within [0, 1].
C3_AttackScoreReturns ==
  (succeeded /\ call.op = "attack_score") =>
    /\ call.outcome = "ok"
    /\ call.probaCalls = 1
    /\ Len(call.result) = Len(call.datasets.v)
    /\ \A i \in 1..Len(call.result) :
         /\ call.result[i] = call.scores[i][call.labels.v[i] + 1]
         /\ 0 <= call.result[i] /\ call.result[i] <= ScoreScale

\* C4: train fits on the caller's datasets and labels, the threat model not
\* called, exactly when both are given; otherwise it fails when there is no
\* threat model, and else calls generate_training_samples(num_samples) once
\* and fits on what that returned.
C4_TrainSource ==
  call.op = "train" =>
    IF call.datasets.some /\ call.labels.some
    THEN /\ call.genCalls = 0
         /\ call.fitCalls = 1
         /\ call.fitDatasets = call.datasets
         /\ call.fitLabels = call.labels
    ELSE IF ~call.threat_model
    THEN /\ call.outcome = "AttributeError"
         /\ call.genCalls = 0
         /\ call.fitCalls = 0
    ELSE /\ call.genCalls = 1
         /\ call.genArg = call.num_samples
         /\ IF call.genRet.some
            THEN /\ call.fitCalls = 1
                 /\ call.fitDatasets = call.genRet
                 /\ call.fitLabels = call.genLabels
                 /\ Len(call.genRet.v) = call.num_samples
            ELSE /\ call.fitCalls = 0
                 /\ call.outcome = "GenError"

\* train was given datasets but no labels, and fitted on generated samples
C4_Witness ==
  /\ call.op = "train"
  /\ call.datasets.some /\ Len(call.datasets.v) = 1
  /\ ~call.labels.some
  /\ call.genCalls = 1
  /\ call.fitCalls = 1
  /\ call.num_samples = 2
  /\ call.fitDatasets = call.genRet
  /\ call.outcome = "ok"

\* C5: the flag starts false; a train call sets it exactly when it returns
\* normally (fit returned), from either value; a failing train (generation or
\* fit raised, each called at most once) and every attack / attack_score call
\* leave it as it was; it never goes from true to false.
C5_TrainedFlag ==
  /\ trained = FALSE
  /\ [][/\ (call'.op = "train" =>
              /\ trained' = (trained \/ call'.outcome = "ok")
              /\ (call'.outcome = "ok") =
                   (call'.fitCalls = 1 /\ call'.outcome # "FitError")
              /\ call'.outcome \in {"ok", "FitError", "GenError", "AttributeError"}
              /\ (call'.outcome = "FitError" => call'.fitCalls = 1)
              /\ (call'.outcome = "GenError" =>
                    (call'.genCalls = 1 /\ call'.fitCalls = 0)))
         /\ (call'.op # "train" => trained' = trained)
         /\ (trained => trained')
         /\ trained' = succeeded']_vars

\* a train call failed in fit on a trained instance, which stayed trained
C5_Witness ==
  /\ trained
  /\ call.op = "train"
  /\ call.outcome = "FitError"


(***************************************************************************)
(* Properties of the dataset container and of the record identity model    *)
(* (SpecData, SpecRecord).  They speak of one step: Before(o) is the       *)
(* DataFrame of object o when the operation is called, After(o) the one    *)
(* when it has returned or raised.                                         *)
(***************************************************************************)
Before(o) == heap[data[o]]
After(o) == heap'[data'[o]]

\* the object that holds the outcome of the last operation: self when it
\* was called in place, else the dataset it returned
Outcome == IF last'.in_place THEN last'.self ELSE "T"

\* the rows of f at the positions that ids does not list, in order
RowsNotAt(f, ids) ==
  LET listed == {ids[k] + 1 : k \in 1..Len(ids)}
      RECURSIVE take(_)
      take(k) == IF k > Len(f) THEN <<>>
                 ELSE (IF k \in listed THEN <<>> ELSE <<f[k]>>) \o take(k + 1)
  IN  take(1)

PairwiseDistinct(f) ==
  \A a, b \in 1..Len(f) : a # b => f[a].val # f[b].val

\* C6: when an in-place drop_records, add_records or replace fails its
\* validation (the assertion on the lengths or on the Schema), the dataset
\* has the rows it had before the call.
C6_NoPartialMutation ==
  [][(/\ last'.op \in {"drop_records", "add_records", "replace"}
      /\ last'.in_place
      /\ last'.outcome = "AssertionError")
     => After(last'.self) = Before(last'.self)]_vars

\* C7: replace with a Schema-equal records_in no longer than the dataset and
\* records_out empty or as long as records_in leaves len(D) rows in the
\* result (in D itself when in place); with a non-empty records_out of
\* another length it fails.
C7_ReplaceKeepsLength ==
  [][last'.op = "replace" =>
       /\ (/\ description[last'.self] = description[last'.other]
           /\ Len(Before(last'.other)) <= Len(Before(last'.self))
           /\ Len(last'.record_ids) \in {0, Len(Before(last'.other))}
           /\ last'.outcome = "ok")
          => Len(After(Outcome)) = Len(Before(last'.self))
       /\ (/\ Len(last'.record_ids) > 0
           /\ Len(last'.record_ids) # Len(Before(last'.other)))
          => last'.outcome = "AssertionError"]_vars

\* C8: for a non-empty list S of distinct row positions of D, drop_records(S)
\* succeeds and leaves exactly the rows of D that get_records(S) does not
\* return, so len(D) - len(S) of them.
C8_DropRemovesIndexedRows ==
  [][(/\ last'.op = "drop_records"
      /\ Len(last'.record_ids) > 0
      /\ IlocOk(Before(last'.self), last'.record_ids))
     => /\ last'.outcome = "ok"
        /\ After(Outcome) = RowsNotAt(Before(last'.self), last'.record_ids)
        /\ Len(After(Outcome)) =
             Len(Before(last'.self)) - Len(Iloc(Before(last'.self), last'.record_ids))]_vars

\* C9: for D with pairwise distinct rows and a row position i of D,
\* TabularRecord.from_dataset(D.get_records([i])).get_id(D) returns i, and
\* the record's identifier is i.
C9_IdentityRoundTrip ==
  [][(/\ last'.op = "round_trip"
      /\ IlocOk(Before(last'.self), last'.record_ids)
      /\ PairwiseDistinct(Before(last'.self)))
     => /\ last'.outcome = "ok"
        /\ last'.value = last'.record_ids[1]
        /\ id' = last'.record_ids[1]]_vars

\* C10: set_id on a record changes no dataset; an in-place operation on a
\* dataset changes no other object; an operation that returns a new dataset
\* or record leaves the datasets it was called on as they were.
C10_NoAliasing ==
  [][/\ last'.op = "set_id" =>
          \A o \in Datasets : Exists(o) => After(o) = Before(o)
     /\ (last'.op \in {"drop_records", "add_records", "replace"} /\ last'.in_place) =>
          /\ \A o \in Objs \ {last'.self} : Exists(o) => After(o) = Before(o)
          /\ id' = id
     /\ ~last'.in_place =>
          \A o \in {"D", "E"} : After(o) = Before(o)]_vars


\* C11: for datasets A and B with equal descriptions, A + B is a new dataset
\* of the rows of A in order followed by the rows of B in order, duplicates
\* kept, so of len(A) + len(B) rows; with unequal descriptions + fails and
\* no dataset is made or changed.
C11_AddConcatenates ==
  [][last'.op = "add" =>
       IF description[last'.self] = description[last'.other]
       THEN /\ last'.outcome = "ok"
            /\ Len(After("T")) = Len(Before(last'.self)) + Len(Before(last'.other))
            /\ \A k \in 1..Len(Before(last'.self)) :
                 After("T")[k].val = Before(last'.self)[k].val
            /\ \A k \in 1..Len(Before(last'.other)) :
                 After("T")[Len(Before(last'.self)) + k].val = Before(last'.other)[k].val
            /\ description'["T"] = description[last'.self]
            /\ \A o \in {"D", "E"} : After(o) = Before(o)
       ELSE /\ last'.outcome = "AssertionError"
            /\ data' = data
            /\ heap' = heap
            /\ description' = description]_vars

\* D + E returned a dataset in which a row of D appears again as the row of E
C11_Witness ==
  /\ last.op = "add"
  /\ last.outcome = "ok"
  /\ last.self = "D"
  /\ last.other = "E"
  /\ Len(F("T")) = Len(F("D")) + Len(F("E"))
  /\ \E k \in 1..Len(F("D")) : F("D")[k].val = F("E")[1].val


\* the number of times the row r (label and values) occurs in f
Occurrences(f, r) == Cardinality({k \in 1..Len(f) : f[k] = r})

\* C12: create_subsets(n, s) on D changes no dataset; with s <= len(D) it
\* returns exactly n datasets of D's description, each of exactly s rows,
\* every one a row of D and none taken more often than D holds it (a subset
\* is drawn without replacement); with s > len(D) it fails with the
\* assertion and returns no subset.
C12_CreateSubsets ==
  [][last'.op = "create_subsets" =>
       /\ heap' = heap /\ data' = data /\ description' = description /\ id' = id
       /\ IF last'.sample_size <= Len(Before(last'.self))
          THEN /\ last'.outcome = "ok"
               /\ Len(last'.subsets) = last'.n
               /\ \A k \in 1..Len(last'.subsets) :
                    /\ Len(last'.subsets[k].rows) = last'.sample_size
                    /\ last'.subsets[k].description = description[last'.self]
                    /\ \A j \in 1..Len(last'.subsets[k].rows) :
                         /\ \E m \in 1..Len(Before(last'.self)) :
                              last'.subsets[k].rows[j] = Before(last'.self)[m]
                         /\ Occurrences(last'.subsets[k].rows, last'.subsets[k].rows[j])
                              <= Occurrences(Before(last'.self), last'.subsets[k].rows[j])
          ELSE /\ last'.outcome = "AssertionError"
               /\ last'.subsets = <<>>]_vars

\* create_subsets(2, 2) on a derived dataset returned two different subsets
\* that share a row
C12_Witness ==
  /\ last.op = "create_subsets"
  /\ last.outcome = "ok"
  /\ last.self = "T"
  /\ last.n = 2
  /\ last.sample_size = 2
  /\ Len(last.subsets) = 2
  /\ last.subsets[1].rows # last.subsets[2].rows
  /\ \E a, b \in 1..2 : last.subsets[1].rows[a] = last.subsets[2].rows[b]

====
